---- MODULE Spec2Model ----
(***************************************************************************)
(* Model of asset-transfer-api:                                            *)
(*   - checkLocalTxInput (the local transfer classifier), as a state       *)
(*     machine whose steps are cut at the handler's await points;          *)
(*   - the RelayToSystem XCM type builder (createBeneficiary, createDest,  *)
(*     createAssets, createWeightLimit, createFeeAssetItem), as pure       *)
(*     operators applied by the actions of a second specification.         *)
(* Strings are sequences of one-character strings so that toLowerCase and  *)
(* parseInt are computed and not assumed.                                  *)
(***************************************************************************)
EXTENDS Integers, Sequences, FiniteSets, TLC

VARIABLES
  pc,        \* position of checkLocalTxInput: idle, entered, an await point, done
  req,       \* the arguments of the current call
  assetId,   \* the handler's local `let assetId`
  result,    \* the LocalTxType returned, or the BaseErrorsEnum kind thrown
  trace,     \* the Registry reads and ChainClient queries issued by the call, in order
  xcmIn,     \* the arguments handed to the RelayToSystem builder
  frags      \* the fragments built so far for xcmIn

localVars == <<pc, req, assetId, result, trace>>
xcmVars == <<xcmIn, frags>>
vars == <<pc, req, assetId, result, trace, xcmIn, frags>>

(***************************************************************************)
(* Bounds of the model.                                                    *)
(***************************************************************************)
MaxAssetIds == 2
MaxAmounts == 2
MaxXcmAmounts == 2

(***************************************************************************)
(* JavaScript strings and the two conversions the handler applies.         *)
(***************************************************************************)
Undefined == <<"<undefined>">>

UpperChars == <<"A","B","C","D","E","F","G","H","I","J","K","L","M",
                "N","O","P","Q","R","S","T","U","V","W","X","Y","Z">>
LowerChars == <<"a","b","c","d","e","f","g","h","i","j","k","l","m",
                "n","o","p","q","r","s","t","u","v","w","x","y","z">>
Digits == {"0","1","2","3","4","5","6","7","8","9"}
WhiteSpace == {" "}

LowerChar(c) ==
  IF \E i \in 1..Len(UpperChars) : UpperChars[i] = c
  THEN LowerChars[CHOOSE i \in 1..Len(UpperChars) : UpperChars[i] = c]
  ELSE c

toLowerCase(s) == [i \in 1..Len(s) |-> LowerChar(s[i])]

\* parseInt: leading white space is skipped, one sign is accepted, then the
\* longest run of digits is read; the result is NaN when that run is empty.
RECURSIVE SkipSpace(_)
SkipSpace(s) ==
  IF Len(s) > 0 /\ Head(s) \in WhiteSpace THEN SkipSpace(Tail(s)) ELSE s

SkipSign(s) == IF Len(s) > 0 /\ Head(s) \in {"+", "-"} THEN Tail(s) ELSE s

RECURSIVE DigitPrefix(_)
DigitPrefix(s) ==
  IF Len(s) > 0 /\ Head(s) \in Digits
  THEN <<Head(s)>> \o DigitPrefix(Tail(s))
  ELSE <<>>

parseIntIsNaN(s) == DigitPrefix(SkipSign(SkipSpace(s))) = <<>>

(***************************************************************************)
(* The inputs drawn for assetIds.                                          *)
(***************************************************************************)
sKSM == <<"K","S","M">>
sksm == <<"k","s","m">>
sUSDT == <<"U","S","D","T">>
sFOO == <<"F","O","O">>
s1984 == <<"1","9","8","4">>
s99 == <<"9","9">>
sML1 == <<"{","X","1",":","1","}">>
sML2 == <<"{","X","1",":","2","}">>

AssetIdInputs == {sKSM, sksm, sUSDT, sFOO, s1984, s99, sML1, sML2}
AmountInputs == {<<"1","0","0","0">>}
ChainAssetIds == {s1984, s99}

RECURSIVE SeqsUpTo(_, _)
SeqsUpTo(S, n) ==
  IF n = 0 THEN {<<>>}
  ELSE LET shorter == SeqsUpTo(S, n - 1)
       IN  shorter \cup {Append(q, x) : q \in {t \in shorter : Len(t) = n - 1}, x \in S}

(***************************************************************************)
(* The Registry snapshot: chain id -> topology.                            *)
(***************************************************************************)
RelayInfo ==
  [specName |-> "kusama", tokens |-> <<sKSM>>,
   assetsInfo |-> <<>>, foreignAssetsInfo |-> {}]

AssetHubInfo ==
  [specName |-> "asset-hub-kusama", tokens |-> <<sKSM>>,
   assetsInfo |-> <<[id |-> s1984, symbol |-> <<"u","s","d","t">>],
                    [id |-> <<"8">>, symbol |-> <<"R","M","R","K">>]>>,
   foreignAssetsInfo |-> {sML1}]

currentRelayRegistry == [c \in {"0", "1000"} |-> IF c = "0" THEN RelayInfo ELSE AssetHubInfo]

SpecNames == {currentRelayRegistry[c].specName : c \in DOMAIN currentRelayRegistry}

getChainIdBySpecName(specName) ==
  CHOOSE c \in DOMAIN currentRelayRegistry : currentRelayRegistry[c].specName = specName

\* Object.keys(systemParachainInfo.assetsInfo)
AssetKeys(info) == {info.assetsInfo[i].id : i \in 1..Len(info.assetsInfo)}

(***************************************************************************)
(* Events recorded in trace: a Registry read, a ChainClient query with its *)
(* answer, or an asset-id resolution with the id it produced.              *)
(***************************************************************************)
RegistryRead(what, arg) ==
  [kind |-> "registry", what |-> what, arg |-> arg, ans |-> "read", id |-> <<>>]
ChainQuery(what, arg, ans) ==
  [kind |-> "chain", what |-> what, arg |-> arg, ans |-> ans, id |-> <<>>]
Resolution(arg, ans, id) ==
  [kind |-> "resolve", what |-> "getAssetHubAssetId", arg |-> arg, ans |-> ans, id |-> id]

Outcome(p, r, a, t) == [pc |-> p, result |-> r, assetId |-> a, trace |-> t]

(***************************************************************************)
(* checkLocalTxInput, up to its first await.                               *)
(***************************************************************************)
SystemParachainInfo(r) == currentRelayRegistry[getChainIdBySpecName(r.specName)]

LengthsInvalidBothWrong(assetIds, amounts) == Len(assetIds) > 1 /\ Len(amounts) # 1

LengthsInvalid(assetIds, amounts) == Len(assetIds) > 1 \/ Len(amounts) # 1

foreignAssetMultiLocationIsInRegistry(r, multiLocationStr) ==
  multiLocationStr \in SystemParachainInfo(r).foreignAssetsInfo

ForeignBranchLookupFirst(r) ==
  LET multiLocationStr == IF Len(r.assetIds) = 0 THEN Undefined ELSE r.assetIds[1]
      t == <<RegistryRead("foreignAssetsInfo", multiLocationStr)>>
  IN  IF foreignAssetMultiLocationIsInRegistry(r, multiLocationStr)
      THEN Outcome("done", "ForeignAssets", multiLocationStr, t)
      ELSE IF Len(r.assetIds) = 0
      THEN Outcome("done", "InvalidInput", Undefined, t)
      ELSE Outcome("awaitForeignAssetsMultiLocationExists", "none", multiLocationStr, t)

ForeignBranch(r) ==
  IF Len(r.assetIds) = 0
  THEN Outcome("done", "InvalidInput", Undefined, <<>>)
  ELSE LET multiLocationStr == r.assetIds[1]
           t == <<RegistryRead("foreignAssetsInfo", multiLocationStr)>>
       IN  IF foreignAssetMultiLocationIsInRegistry(r, multiLocationStr)
           THEN Outcome("done", "ForeignAssets", multiLocationStr, t)
           ELSE Outcome("awaitForeignAssetsMultiLocationExists", "none", multiLocationStr, t)

ChainReads(r) ==
  <<RegistryRead("currentRelayRegistry", <<>>),
    RegistryRead("getChainIdBySpecName", <<>>)>>

LiquidBranch(r) ==
  Outcome("awaitCheckLiquidTokenValidity", "none",
          IF Len(r.assetIds) = 0 THEN Undefined ELSE r.assetIds[1],
          ChainReads(r))

isNativeTokenExact(info, id) ==
  \E i \in 1..Len(info.tokens) : info.tokens[i] = id

isNativeToken(info, id) ==
  \E i \in 1..Len(info.tokens) : toLowerCase(info.tokens[i]) = toLowerCase(id)

isAssetAvailableInRegistry(info, id) ==
  \E k \in AssetKeys(info) : toLowerCase(k) = toLowerCase(id)

\* lines 115-138, entered with the id to check and whether the caller's own
\* input was not a number
AfterResolve(info, id, isNotANumber, t) ==
  LET t2 == Append(t, RegistryRead("assetsInfo", id))
  IN  IF isAssetAvailableInRegistry(info, id)
      THEN Outcome("done", "Assets", id, t2)
      ELSE IF ~isNotANumber
      THEN Outcome("awaitAssetsAsset", "none", id, t2)
      ELSE Outcome("done", "Assets", id, t2)

DefaultBranch(r) ==
  LET info == SystemParachainInfo(r)
      t == ChainReads(r)
  IN  IF Len(r.assetIds) = 0
      THEN Outcome("done", "Balances", Undefined, t)
      ELSE LET id == r.assetIds[1]
               t1 == Append(t, RegistryRead("tokens", id))
           IN  IF isNativeToken(info, id)
               THEN Outcome("done", "Balances", id, t1)
               ELSE IF parseIntIsNaN(id)
               THEN Outcome("awaitGetAssetHubAssetId", "none", id, t1)
               ELSE AfterResolve(info, id, FALSE, t1)

BranchLiquidFirst(r) ==
  IF r.isLiquidTokenTransfer THEN LiquidBranch(r)
  ELSE IF r.isForeignAssetsTransfer THEN ForeignBranch(r)
  ELSE DefaultBranch(r)

Branch(r) ==
  IF r.isForeignAssetsTransfer THEN ForeignBranch(r)
  ELSE IF r.isLiquidTokenTransfer THEN LiquidBranch(r)
  ELSE DefaultBranch(r)

Entered(r) ==
  IF LengthsInvalid(r.assetIds, r.amounts)
  THEN Outcome("done", "InvalidInput", Undefined, <<>>)
  ELSE Branch(r)

(***************************************************************************)
(* What the awaited collaborators answer.                                  *)
(***************************************************************************)
ForeignExistsResult(isValidForeignAsset) ==
  IF isValidForeignAsset THEN "ForeignAssets" ELSE "AssetNotFound"

LiquidResult(valid) == IF valid THEN "PoolAssets" ELSE "LiquidTokenInvalid"

AssetsAssetResultIgnoreNone(isNone) == "Assets"

AssetsAssetResult(isNone) == IF isNone THEN "AssetNotFound" ELSE "Assets"

\* getAssetHubAssetId: the keys of the chain's assets table whose symbol is
\* the given one, compared without case
RegistryIdsOfSymbol(info, symbol) ==
  {info.assetsInfo[i].id : i \in
     {j \in 1..Len(info.assetsInfo) :
        toLowerCase(info.assetsInfo[j].symbol) = toLowerCase(symbol)}}

(***************************************************************************)
(* The actions of checkLocalTxInput.                                       *)
(***************************************************************************)
NoRequest ==
  [assetIds |-> <<>>, amounts |-> <<>>, specName |-> "kusama",
   isForeignAssetsTransfer |-> FALSE, isLiquidTokenTransfer |-> FALSE]

Requests ==
  [assetIds : SeqsUpTo(AssetIdInputs, MaxAssetIds),
   amounts : SeqsUpTo(AmountInputs, MaxAmounts),
   specName : SpecNames,
   isForeignAssetsTransfer : BOOLEAN,
   isLiquidTokenTransfer : BOOLEAN]

Apply(o) ==
  /\ pc' = o.pc
  /\ result' = o.result
  /\ assetId' = o.assetId
  /\ trace' = o.trace

Call ==
  /\ pc = "idle"
  /\ \E r \in Requests : req' = r
  /\ pc' = "entered"
  /\ result' = "none"
  /\ assetId' = Undefined
  /\ trace' = <<>>
  /\ UNCHANGED xcmVars

CheckLocalTxInput ==
  /\ pc = "entered"
  /\ Apply(Entered(req))
  /\ UNCHANGED <<req, xcmVars>>

ForeignAssetsMultiLocationExistsReply ==
  /\ pc = "awaitForeignAssetsMultiLocationExists"
  /\ \E isValidForeignAsset \in BOOLEAN :
       /\ trace' = Append(trace, ChainQuery("foreignAssets", assetId,
                            IF isValidForeignAsset THEN "some" ELSE "none"))
       /\ result' = ForeignExistsResult(isValidForeignAsset)
  /\ pc' = "done"
  /\ UNCHANGED <<req, assetId, xcmVars>>

CheckLiquidTokenValidityReply ==
  /\ pc = "awaitCheckLiquidTokenValidity"
  /\ \E valid \in BOOLEAN :
       /\ trace' = Append(trace, ChainQuery("liquidPool", assetId,
                            IF valid THEN "ok" ELSE "invalid"))
       /\ result' = LiquidResult(valid)
  /\ pc' = "done"
  /\ UNCHANGED <<req, assetId, xcmVars>>

GetAssetHubAssetIdReply ==
  /\ pc = "awaitGetAssetHubAssetId"
  /\ LET info == SystemParachainInfo(req)
         known == RegistryIdsOfSymbol(info, assetId)
         t == Append(trace, RegistryRead("assetsInfo.symbol", assetId))
     IN  IF known # {}
         THEN \E id \in known :
                Apply(AfterResolve(info, id, TRUE,
                                   Append(t, Resolution(assetId, "registry", id))))
         ELSE \/ \E id \in ChainAssetIds :
                   Apply(AfterResolve(info, id, TRUE,
                           t \o <<ChainQuery("assetIdLookup", assetId, "some"),
                                  Resolution(assetId, "chain", id)>>))
              \/ Apply(Outcome("done", "AssetNotFound", assetId,
                           t \o <<ChainQuery("assetIdLookup", assetId, "none"),
                                  Resolution(assetId, "notfound", <<>>)>>))
  /\ UNCHANGED <<req, xcmVars>>

AssetsAssetReply ==
  /\ pc = "awaitAssetsAsset"
  /\ \E isNone \in BOOLEAN :
       /\ trace' = Append(trace, ChainQuery("assets.asset", assetId,
                            IF isNone THEN "none" ELSE "some"))
       /\ result' = AssetsAssetResult(isNone)
  /\ pc' = "done"
  /\ UNCHANGED <<req, assetId, xcmVars>>

Return ==
  /\ pc = "done"
  /\ pc' = "idle"
  /\ req' = NoRequest
  /\ result' = "none"
  /\ assetId' = Undefined
  /\ trace' = <<>>
  /\ UNCHANGED xcmVars

(***************************************************************************)
(* JavaScript values handed to createWeightLimit, and their truthiness.    *)
(***************************************************************************)
JsUndefined == [t |-> "undefined", s |-> "", n |-> 0]
JsString(str) == [t |-> "string", s |-> str, n |-> 0]
JsNumber(num) == [t |-> "number", s |-> "", n |-> num]
JsBoolean(b) == [t |-> "boolean", s |-> "", n |-> IF b THEN 1 ELSE 0]

\* ToBoolean: undefined, the empty string, 0 and false are falsy
Truthy(v) ==
  CASE v.t = "undefined" -> FALSE
    [] v.t = "string" -> v.s # ""
    [] v.t = "number" -> v.n # 0
    [] v.t = "boolean" -> v.n = 1

\* opts.weightLimit?.refTime, opts.weightLimit?.proofSize
OptRefTime(opts) == IF opts.hasWeightLimit THEN opts.refTime ELSE JsUndefined
OptProofSize(opts) == IF opts.hasWeightLimit THEN opts.proofSize ELSE JsUndefined

(***************************************************************************)
(* RelayToSystem.                                                          *)
(***************************************************************************)
AccountLocation(accountId) ==
  [parents |-> 0, interior |-> [X1 |-> [AccountId32 |-> [id |-> accountId]]]]

AccountLocationWithNetwork(accountId) ==
  [parents |-> 0,
   interior |-> [X1 |-> [AccountId32 |-> [network |-> "Any", id |-> accountId]]]]

createBeneficiaryNoNetwork(accountId, xcmVersion) ==
  IF xcmVersion = 2
  THEN [V2 |-> AccountLocation(accountId)]
  ELSE [V3 |-> AccountLocation(accountId)]

createBeneficiary(accountId, xcmVersion) ==
  IF xcmVersion = 2
  THEN [V2 |-> AccountLocationWithNetwork(accountId)]
  ELSE [V3 |-> AccountLocation(accountId)]

ParachainLocation(destId) ==
  [parents |-> 0, interior |-> [X1 |-> [Parachain |-> destId]]]

createDestAlwaysV3(destId, xcmVersion) == [V3 |-> ParachainLocation(destId)]

createDest(destId, xcmVersion) ==
  IF xcmVersion = 2
  THEN [V2 |-> ParachainLocation(destId)]
  ELSE [V3 |-> ParachainLocation(destId)]

MultiAsset(amount) ==
  [fun |-> [Fungible |-> amount],
   id |-> [Concrete |-> [interior |-> [Here |-> ""], parents |-> 0]]]

createAssetsLastAmount(amounts, xcmVersion) ==
  LET multiAssets ==
        <<MultiAsset(IF Len(amounts) > 0 THEN amounts[Len(amounts)] ELSE Undefined)>>
  IN  IF xcmVersion = 2 THEN [V2 |-> multiAssets] ELSE [V3 |-> multiAssets]

\* amounts[0] is undefined when amounts is empty
createAssets(amounts, xcmVersion) ==
  LET amount == IF Len(amounts) > 0 THEN amounts[1] ELSE Undefined
      multiAssets == <<MultiAsset(amount)>>
  IN  IF xcmVersion = 2 THEN [V2 |-> multiAssets] ELSE [V3 |-> multiAssets]

createWeightLimit(opts) ==
  IF Truthy(opts.isLimited) /\ Truthy(OptRefTime(opts)) /\ Truthy(OptProofSize(opts))
  THEN [Limited |-> [refTime |-> OptRefTime(opts), proofSize |-> OptProofSize(opts)]]
  ELSE [Unlimited |-> "null"]

createFeeAssetItem == 0

(***************************************************************************)
(* The calls of the builder: a request fixes the arguments, then each      *)
(* operation is applied once, in any order.                                *)
(***************************************************************************)
XcmVersions == {2, 3, 4}
AccountIds == {"5F", "5G"}
DestIds == {"1000", "1001"}
XcmAmountInputs == {<<"1","0","0">>, <<"2","5","0">>}
WeightValues == {JsUndefined, JsString(""), JsString("1000"), JsNumber(0), JsNumber(1000)}

WeightOpts ==
  {[isLimited |-> l, hasWeightLimit |-> FALSE, refTime |-> JsUndefined,
    proofSize |-> JsUndefined] : l \in {JsUndefined, JsBoolean(TRUE), JsBoolean(FALSE)}}
  \cup
  [isLimited : {JsUndefined, JsBoolean(TRUE), JsBoolean(FALSE)},
   hasWeightLimit : {TRUE},
   refTime : WeightValues,
   proofSize : WeightValues]

NoOpts ==
  [isLimited |-> JsUndefined, hasWeightLimit |-> FALSE, refTime |-> JsUndefined,
   proofSize |-> JsUndefined]

XcmIdle ==
  [phase |-> "idle", xcmVersion |-> 0, accountId |-> "", destId |-> "",
   amounts |-> <<>>, opts |-> NoOpts]

NoFrags == [f \in {} |-> 0]

Built(f) == f \in DOMAIN frags

Put(f, v) == [g \in DOMAIN frags \cup {f} |-> IF g = f THEN v ELSE frags[g]]

XcmRequest ==
  /\ xcmIn.phase = "idle"
  /\ \E v \in XcmVersions, a \in AccountIds, d \in DestIds,
        am \in SeqsUpTo(XcmAmountInputs, MaxXcmAmounts), o \in WeightOpts :
       xcmIn' = [phase |-> "building", xcmVersion |-> v, accountId |-> a,
                 destId |-> d, amounts |-> am, opts |-> o]
  /\ frags' = NoFrags
  /\ UNCHANGED localVars

CreateBeneficiary ==
  /\ xcmIn.phase = "building"
  /\ ~Built("beneficiary")
  /\ frags' = Put("beneficiary", createBeneficiary(xcmIn.accountId, xcmIn.xcmVersion))
  /\ UNCHANGED <<xcmIn, localVars>>

CreateDest ==
  /\ xcmIn.phase = "building"
  /\ ~Built("dest")
  /\ frags' = Put("dest", createDest(xcmIn.destId, xcmIn.xcmVersion))
  /\ UNCHANGED <<xcmIn, localVars>>

CreateAssets ==
  /\ xcmIn.phase = "building"
  /\ ~Built("assets")
  /\ frags' = Put("assets", createAssets(xcmIn.amounts, xcmIn.xcmVersion))
  /\ UNCHANGED <<xcmIn, localVars>>

CreateWeightLimit ==
  /\ xcmIn.phase = "building"
  /\ ~Built("weightLimit")
  /\ frags' = Put("weightLimit", createWeightLimit(xcmIn.opts))
  /\ UNCHANGED <<xcmIn, localVars>>

CreateFeeAssetItem ==
  /\ xcmIn.phase = "building"
  /\ ~Built("feeAssetItem")
  /\ frags' = Put("feeAssetItem", createFeeAssetItem)
  /\ UNCHANGED <<xcmIn, localVars>>

XcmReturn ==
  /\ xcmIn.phase = "building"
  /\ DOMAIN frags = {"beneficiary", "dest", "assets", "weightLimit", "feeAssetItem"}
  /\ xcmIn' = XcmIdle
  /\ frags' = NoFrags
  /\ UNCHANGED localVars

InitLocal ==
  /\ pc = "idle"
  /\ req = NoRequest
  /\ result = "none"
  /\ assetId = Undefined
  /\ trace = <<>>

Init ==
  /\ InitLocal
  /\ xcmIn = XcmIdle
  /\ frags = NoFrags

Next ==
  \/ Call
  \/ CheckLocalTxInput
  \/ ForeignAssetsMultiLocationExistsReply
  \/ CheckLiquidTokenValidityReply
  \/ GetAssetHubAssetIdReply
  \/ AssetsAssetReply
  \/ Return

Spec == Init /\ [][Next]_vars

NextXcm ==
  \/ XcmRequest
  \/ CreateBeneficiary
  \/ CreateDest
  \/ CreateAssets
  \/ CreateWeightLimit
  \/ CreateFeeAssetItem
  \/ XcmReturn

SpecXcm == Init /\ [][NextXcm]_vars

(***************************************************************************)
(* Properties of checkLocalTxInput (specification Spec).                   *)
(***************************************************************************)
Done == pc = "done"

ValidLengths == Len(req.assetIds) <= 1 /\ Len(req.amounts) = 1

PlainRequest ==
  ValidLengths /\ ~req.isForeignAssetsTransfer /\ ~req.isLiquidTokenTransfer

ChainEvents == {i \in DOMAIN trace : trace[i].kind = "chain"}

MatchesNativeToken(id) ==
  \E i \in 1..Len(SystemParachainInfo(req).tokens) :
    toLowerCase(SystemParachainInfo(req).tokens[i]) = toLowerCase(id)

MatchesRegistryKey(id) ==
  \E k \in AssetKeys(SystemParachainInfo(req)) : toLowerCase(k) = toLowerCase(id)

\* C1: a call with more than one assetId or with a number of amounts other
\* than one ends in InvalidInput whatever its other arguments are, and so
\* does a foreign-asset call with no assetId.
C1_InvalidInput ==
  (Done /\ (\/ Len(req.assetIds) > 1
            \/ Len(req.amounts) # 1
            \/ (req.isForeignAssetsTransfer /\ Len(req.assetIds) = 0)))
    => result = "InvalidInput"

C1_Witness ==
  /\ Done
  /\ Len(req.assetIds) = 2
  /\ Len(req.amounts) = 1
  /\ req.isLiquidTokenTransfer
  /\ req.specName = "asset-hub-kusama"
  /\ result = "InvalidInput"

\* C2: on the non-foreign, non-liquid path with one assetId that is no
\* native token, the call ends in Assets or in AssetNotFound, and in Assets
\* only when the resolved id is a key of the chain's assetsInfo or an
\* assets.asset query for that id was answered with a value; this for an
\* integer input and for a symbol promoted by getAssetHubAssetId alike.
C2_AssetsOnlyWhenConfirmed ==
  (Done /\ PlainRequest /\ Len(req.assetIds) = 1
        /\ ~MatchesNativeToken(req.assetIds[1]))
    => /\ result \in {"Assets", "AssetNotFound"}
       /\ result = "Assets" =>
            \/ MatchesRegistryKey(assetId)
            \/ \E i \in DOMAIN trace :
                 trace[i] = ChainQuery("assets.asset", assetId, "some")

\* C3: a valid non-foreign, non-liquid call with no assetId, or with one
\* that equals a native token of the chain without regard to case, returns
\* Balances and issues no ChainClient query.
C3_NativeIsBalances ==
  (Done /\ PlainRequest
        /\ (Len(req.assetIds) = 0 \/ MatchesNativeToken(req.assetIds[1])))
    => result = "Balances" /\ ChainEvents = {}

C3_Witness ==
  /\ Done
  /\ PlainRequest
  /\ req.assetIds = <<sksm>>
  /\ result = "Balances"

\* C4: a valid non-foreign, non-liquid call whose assetId parses as an
\* integer, is no native token and is no key of assetsInfo queries the chain
\* for that id, and ends in AssetNotFound when the answer is none and in
\* Assets when it is a value.
C4_IntegerAskedOnChain ==
  (Done /\ PlainRequest /\ Len(req.assetIds) = 1
        /\ ~parseIntIsNaN(req.assetIds[1])
        /\ ~MatchesNativeToken(req.assetIds[1])
        /\ ~MatchesRegistryKey(req.assetIds[1]))
    => /\ Cardinality(ChainEvents) = 1
       /\ \A i \in ChainEvents :
            /\ trace[i].what = "assets.asset"
            /\ trace[i].arg = req.assetIds[1]
            /\ trace[i].ans = "none" => result = "AssetNotFound"
            /\ trace[i].ans = "some" => result = "Assets"

C4_Witness ==
  /\ Done
  /\ PlainRequest
  /\ req.assetIds = <<s99>>
  /\ result = "AssetNotFound"
  /\ \E i \in DOMAIN trace : trace[i] = ChainQuery("assets.asset", s99, "none")

\* C9: the foreign-asset step is decided before the liquid-token step, and
\* that one before the empty-assetIds and resolver steps: a valid foreign
\* call never reaches the liquidity check and ends in ForeignAssets or
\* AssetNotFound whatever isLiquidTokenTransfer is; a valid liquid call that
\* is not foreign ends in PoolAssets or in the liquidity check's error, even
\* with no assetId.
C9_DecisionOrder ==
  /\ (ValidLengths /\ req.isForeignAssetsTransfer /\ Len(req.assetIds) = 1)
       => /\ pc # "awaitCheckLiquidTokenValidity"
          /\ \A i \in DOMAIN trace : trace[i].what # "liquidPool"
          /\ Done => result \in {"ForeignAssets", "AssetNotFound"}
  /\ (ValidLengths /\ ~req.isForeignAssetsTransfer /\ req.isLiquidTokenTransfer)
       => /\ result \notin {"Balances", "Assets"}
          /\ Done => /\ result \in {"PoolAssets", "LiquidTokenInvalid"}
                     /\ \E i \in DOMAIN trace : trace[i].what = "liquidPool"

C9_Witness ==
  /\ Done
  /\ ValidLengths
  /\ req.isForeignAssetsTransfer
  /\ req.isLiquidTokenTransfer
  /\ Len(req.assetIds) = 1
  /\ result = "AssetNotFound"

\* C10: a call that ends in InvalidInput has issued no Registry read, no
\* ChainClient query and no asset-id resolution.
C10_FailFast == (Done /\ result = "InvalidInput") => trace = <<>>

C10_Witness ==
  /\ Done
  /\ result = "InvalidInput"
  /\ req.isForeignAssetsTransfer
  /\ Len(req.assetIds) = 0
  /\ Len(req.amounts) = 1

(***************************************************************************)
(* Properties of the RelayToSystem builder (specification SpecXcm).        *)
(***************************************************************************)
VersionTag(v) == CASE v = 2 -> "V2" [] v = 3 -> "V3" [] v = 4 -> "V4"

Tagged == {"beneficiary", "dest", "assets"}

Here == [interior |-> [Here |-> ""], parents |-> 0]

\* the value under a versioned fragment's only key
Untagged(x) == x[CHOOSE k \in DOMAIN x : TRUE]

\* C5 as stated: for xcmVersion 2, 3 and 4, the beneficiary, the destination
\* and the asset list each carry exactly the tag of the requested version.
C5_TaggedAsRequested ==
  \A f \in Tagged \cap DOMAIN frags :
    DOMAIN frags[f] = {VersionTag(xcmIn.xcmVersion)}

\* C5 as amended: for xcmVersion 2 and 3 each of the three fragments carries
\* exactly the requested tag, for xcmVersion 4 each carries V3, and in every
\* case all fragments built for one request carry the same tag.
C5_TaggedV2OrV3 ==
  /\ \A f \in Tagged \cap DOMAIN frags :
       /\ xcmIn.xcmVersion \in {2, 3} => DOMAIN frags[f] = {VersionTag(xcmIn.xcmVersion)}
       /\ xcmIn.xcmVersion = 4 => DOMAIN frags[f] = {"V3"}
  /\ \A f, g \in Tagged \cap DOMAIN frags : DOMAIN frags[f] = DOMAIN frags[g]

C5_Witness ==
  /\ Tagged \subseteq DOMAIN frags
  /\ xcmIn.xcmVersion = 4
  /\ \A f \in Tagged : DOMAIN frags[f] = {"V3"}

\* C6: createBeneficiary(accountId, 2) is a V2 location with interior
\* X1.AccountId32 = {network: 'Any', id: accountId}; createBeneficiary(
\* accountId, 3) is a V3 location whose AccountId32 holds the id and no
\* network; apart from the tag the two differ in the network field only.
C6_BeneficiaryShape ==
  Built("beneficiary") =>
    LET b == frags["beneficiary"]
        a == xcmIn.accountId
        v == xcmIn.xcmVersion
    IN  /\ v = 2 =>
             /\ DOMAIN b = {"V2"}
             /\ b.V2.parents = 0
             /\ DOMAIN b.V2.interior = {"X1"}
             /\ DOMAIN b.V2.interior.X1 = {"AccountId32"}
             /\ DOMAIN b.V2.interior.X1.AccountId32 = {"network", "id"}
             /\ b.V2.interior.X1.AccountId32.network = "Any"
             /\ b.V2.interior.X1.AccountId32.id = a
        /\ v = 3 =>
             /\ DOMAIN b = {"V3"}
             /\ b.V3.parents = 0
             /\ DOMAIN b.V3.interior = {"X1"}
             /\ DOMAIN b.V3.interior.X1 = {"AccountId32"}
             /\ DOMAIN b.V3.interior.X1.AccountId32 = {"id"}
             /\ b.V3.interior.X1.AccountId32.id = a
        /\ v \in {2, 3} =>
             LET mine == Untagged(b)
                 other == Untagged(createBeneficiary(a, 5 - v))
                 m == mine.interior.X1.AccountId32
                 o == other.interior.X1.AccountId32
             IN  /\ mine.parents = other.parents
                 /\ DOMAIN mine.interior = DOMAIN other.interior
                 /\ DOMAIN mine.interior.X1 = DOMAIN other.interior.X1
                 /\ (DOMAIN m \ DOMAIN o) \cup (DOMAIN o \ DOMAIN m) = {"network"}
                 /\ \A k \in DOMAIN m \cap DOMAIN o : m[k] = o[k]

C6_Witness ==
  /\ Built("beneficiary")
  /\ xcmIn.xcmVersion = 2
  /\ frags["beneficiary"].V2.interior.X1.AccountId32.network = "Any"

\* C7: createWeightLimit returns Limited with the caller's refTime and
\* proofSize if and only if isLimited is true and both were supplied, and
\* Unlimited for every other input.
C7_LimitedIffSupplied ==
  Built("weightLimit") =>
    LET o == xcmIn.opts
        w == frags["weightLimit"]
        supplied == /\ o.isLimited = JsBoolean(TRUE)
                    /\ o.hasWeightLimit
                    /\ o.refTime # JsUndefined
                    /\ o.proofSize # JsUndefined
    IN  /\ supplied =>
             /\ DOMAIN w = {"Limited"}
             /\ w.Limited.refTime = o.refTime
             /\ w.Limited.proofSize = o.proofSize
        /\ ~supplied => DOMAIN w = {"Unlimited"}

\* C8 as stated: the asset list holds one fungible descriptor per entry of
\* amounts, the i-th with Fungible = amounts[i], each located here.
C8_OnePerAmount ==
  Built("assets") =>
    LET list == Untagged(frags["assets"])
    IN  /\ Len(list) = Len(xcmIn.amounts)
        /\ \A i \in 1..Len(list) :
             /\ list[i].fun.Fungible = xcmIn.amounts[i]
             /\ list[i].id.Concrete = Here

\* C8 as amended: the asset list holds exactly one fungible descriptor,
\* with Fungible = amounts[0] (undefined when amounts is empty), located
\* here; the other entries of amounts are not used.
C8_SingleAsset ==
  Built("assets") =>
    LET list == Untagged(frags["assets"])
    IN  /\ Len(list) = 1
        /\ list[1].fun.Fungible =
             (IF Len(xcmIn.amounts) > 0 THEN xcmIn.amounts[1] ELSE Undefined)
        /\ list[1].id.Concrete = Here

C8_Witness ==
  /\ Built("assets")
  /\ Len(xcmIn.amounts) = 2
  /\ xcmIn.amounts[1] # xcmIn.amounts[2]
  /\ Len(Untagged(frags["assets"])) = 1


====
